---- MODULE Spec2Model ----
(***************************************************************************)
(* Model of src/src/strava_oauth.py: the token store (TokenStorage), the   *)
(* callback handler (OAuthCallbackHandler) and the OAuth client            *)
(* (StravaOAuthClient) with its listener thread.                           *)
(*                                                                         *)
(* One caller thread runs the client's operations one after the other.     *)
(* authorize_athlete is modelled step by step because it runs concurrently *)
(* with the listener thread it starts; every other operation touches only  *)
(* the token file, which the listener never touches, and is one action.    *)
(* A second thread may call authorize_athlete on a second client once the  *)
(* first call has left a listener alive behind it.                         *)
(***************************************************************************)
EXTENDS Integers, Sequences, FiniteSets, TLC

(* ------------------------------ bounds -------------------------------- *)
StartTime == 1000      \* the clock (epoch seconds) when the model starts
MaxTicks == 2          \* seconds the clock advances between operations
MaxCalls == 3          \* operations the caller thread starts
MaxAthletes == 2       \* athlete ids are 1..MaxAthletes
MaxTimeout == 1        \* authorize_athlete(timeout) with timeout in 1..MaxTimeout

(* -------------------------- program constants ------------------------- *)
EXPIRY_BUFFER == 300   \* is_expired: "Add a 5-minute buffer"
JOIN_GRACE == 5        \* server_thread.join(timeout=timeout + 5)
SOCKET_TIMEOUT == 1    \* server.socket.settimeout(1.0)
DEFAULT_PORT == 8089   \* port = parsed.port or 8089

(* Python's None where the other values are integers (an athlete id).      *)
NoneId == -1
(* Python's None where the other values are strings (code, error).         *)
NoneStr == "<None>"

VARIABLES
    now,         \* time.time(), in whole seconds
    token_file,  \* the file at TokenStorage.token_file
    handler,     \* the class attributes of OAuthCallbackHandler, with the last
                 \* request handled, the status sent for it, and the listener
                 \* whose handler last assigned a class attribute (by)
    server,      \* the HTTPServer built by authorize_athlete
    thread,      \* the listener thread running _run_server
    pc,          \* where the caller thread is
    auth,        \* the locals of the authorize_athlete call in progress
    ret,         \* what the last finished operation did and returned
    calls,       \* operations started so far
    other        \* the authorize_athlete call of a second client, made by
                 \* another thread: its position, server, listener and locals

vars == <<now, token_file, handler, server, thread, pc, auth, ret, calls, other>>

(* ------------------------------ values -------------------------------- *)
AthleteIds == 1..MaxAthletes
Digits == <<"1", "2", "3", "4", "5", "6", "7", "8", "9">>

(* str(athlete_id) as _write_tokens applies it to the keys.                *)
StrOf(id) == IF id = NoneId THEN "None" ELSE Digits[id]

(* int(athlete_id_str) as load_tokens applies it: defined on decimal       *)
(* strings only; on any other string Python raises ValueError.             *)
IsIntLiteral(s) == \E n \in 1..Len(Digits) : Digits[n] = s
IntOf(s) == CHOOSE n \in 1..Len(Digits) : Digits[n] = s

DEFAULT_SCOPES == "activity:read_all"

AthleteToken(id, name, access, refresh, expires, ttype, scopes) ==
    [athlete_id |-> id, athlete_name |-> name, access_token |-> access,
     refresh_token |-> refresh, expires_at |-> expires, token_type |-> ttype,
     scopes |-> scopes]

(* Python truthiness of an Optional[str].                                  *)
Truthy(s) == s # NoneStr /\ s # ""

(* Optional[AthleteToken]: <<>> is None, <<t>> is the token t.             *)
NoToken == <<>>
Some(t) == <<t>>

EmptyMap == [k \in {} |-> k]

(* ---------------------------- TokenStorage ---------------------------- *)
(* The token file: absent, text that is not JSON, or a JSON object whose   *)
(* keys are strings and whose values are the fields of an AthleteToken.    *)
AbsentFile == [kind |-> "absent", doc |-> EmptyMap]
GarbageFile == [kind |-> "garbage", doc |-> EmptyMap]
DocFile(d) == [kind |-> "doc", doc |-> d]

(* A token file written by something other than this program: valid JSON   *)
(* that load_tokens accepts, in which the record under the key "2" carries *)
(* the athlete_id 1 (load_tokens does not compare the two). The model      *)
(* follows one operation on it: Init leaves it one call of MaxCalls.       *)
MismatchFile ==
    DocFile([k \in {"1", "2"} |->
                AthleteToken(1, IF k = "1" THEN "Alice" ELSE "Bob", "A1", "R1",
                             StartTime + EXPIRY_BUFFER, "Bearer", DEFAULT_SCOPES)])

(* Mutant of load_tokens: the JSONDecodeError is not caught.                *)
load_tokens_RaisesOnGarbage(f) ==
    IF f.kind = "absent" THEN [exc |-> "", tokens |-> EmptyMap]
    ELSE IF f.kind = "garbage" THEN [exc |-> "JSONDecodeError", tokens |-> EmptyMap]
    ELSE IF \E k \in DOMAIN f.doc : ~IsIntLiteral(k)
         THEN [exc |-> "ValueError", tokens |-> EmptyMap]
    ELSE [exc |-> "",
          tokens |-> [i \in {IntOf(k) : k \in DOMAIN f.doc} |->
                         f.doc[CHOOSE k \in DOMAIN f.doc : IntOf(k) = i]]]

(* load_tokens: {} when the file is absent; {} when json.load raises       *)
(* JSONDecodeError; otherwise int(key) -> the AthleteToken of the value,  *)
(* for every item; int() of a key that is no decimal string raises        *)
(* ValueError,                                                             *)
(* which the except clause (JSONDecodeError, KeyError) does not catch.     *)
load_tokens(f) ==
    IF f.kind = "absent" THEN [exc |-> "", tokens |-> EmptyMap]
    ELSE IF f.kind = "garbage" THEN [exc |-> "", tokens |-> EmptyMap]
    ELSE IF \E k \in DOMAIN f.doc : ~IsIntLiteral(k)
         THEN [exc |-> "ValueError", tokens |-> EmptyMap]
    ELSE [exc |-> "",
          tokens |-> [i \in {IntOf(k) : k \in DOMAIN f.doc} |->
                         f.doc[CHOOSE k \in DOMAIN f.doc : IntOf(k) = i]]]

(* _write_tokens: the whole document is rewritten, keyed by str(id).       *)
WriteTokens(tokens) ==
    DocFile([k \in {StrOf(i) : i \in DOMAIN tokens} |->
                tokens[CHOOSE i \in DOMAIN tokens : StrOf(i) = k]])

(* save_token: load, tokens[token.athlete_id] = token, write.              *)
save_token(f, token) ==
    LET l == load_tokens(f) IN
    IF l.exc # "" THEN [exc |-> l.exc, file |-> f, writes |-> 0]
    ELSE [exc |-> "",
          file |-> WriteTokens(
              [i \in DOMAIN l.tokens \cup {token.athlete_id} |->
                  IF i = token.athlete_id THEN token ELSE l.tokens[i]]),
          writes |-> 1]

(* get_token: tokens.get(athlete_id).                                      *)
get_token(f, id) ==
    LET l == load_tokens(f) IN
    IF l.exc # "" THEN [exc |-> l.exc, tok |-> NoToken]
    ELSE IF id \in DOMAIN l.tokens THEN [exc |-> "", tok |-> Some(l.tokens[id])]
    ELSE [exc |-> "", tok |-> NoToken]

(* delete_token: writes only when the id is in the loaded map.             *)
delete_token(f, id) ==
    LET l == load_tokens(f) IN
    IF l.exc # "" THEN [exc |-> l.exc, file |-> f, result |-> FALSE, writes |-> 0]
    ELSE IF id \in DOMAIN l.tokens
         THEN [exc |-> "",
               file |-> WriteTokens([i \in DOMAIN l.tokens \ {id} |-> l.tokens[i]]),
               result |-> TRUE, writes |-> 1]
    ELSE [exc |-> "", file |-> f, result |-> FALSE, writes |-> 0]

(* list_athletes: athlete_id -> athlete_name of every loaded token.        *)
list_athletes(f) ==
    LET l == load_tokens(f) IN
    IF l.exc # "" THEN [exc |-> l.exc, names |-> EmptyMap]
    ELSE [exc |-> "", names |-> [i \in DOMAIN l.tokens |-> l.tokens[i].athlete_name]]

(* Mutants of is_expired: the comparison made strict; the buffer doubled.  *)
is_expired_Strict(token, t) == t > (token.expires_at - EXPIRY_BUFFER)
is_expired_DoubleBuffer(token, t) == t >= (token.expires_at - 2 * EXPIRY_BUFFER)

(* AthleteToken.is_expired at time t.                                      *)
is_expired(token, t) == t >= (token.expires_at - EXPIRY_BUFFER)

(* --------------------------- token endpoint --------------------------- *)
(* What requests.post(STRAVA_TOKEN_URL, ...) can produce:                  *)
(*   transport  post raises a RequestException (connection, timeout=30)    *)
(*   non2xx     raise_for_status raises HTTPError, a RequestException      *)
(*   nonjson    2xx, response.json raises requests' JSONDecodeError,       *)
(*              a RequestException                                         *)
(*   json       2xx with a JSON object holding the keys in .keys           *)
Names == <<"Alice", "Bob", "Carol", "Dave", "Erin", "Frank", "Grace", "Heidi", "Ivan">>

(* expires_at values the endpoint answers with: one already within the    *)
(* buffer when the model starts, one that enters it while the clock runs.  *)
ExpiresChoices ==
    {StartTime + EXPIRY_BUFFER, StartTime + EXPIRY_BUFFER + MaxTicks}

AthleteObjects ==
    {[id |-> i, name |-> Names[i]] : i \in AthleteIds}
        \cup {[id |-> NoneId, name |-> ""]}     \* no "athlete", or one with no "id"

(* The access and refresh token of the code grant and of the refresh grant. *)
ExchangePair == <<"A1", "R1">>
RefreshPair == <<"A2", "R2">>

Answer(kind, keys, pair, expires, athlete) ==
    [kind |-> kind, keys |-> keys, access_token |-> pair[1],
     refresh_token |-> pair[2], expires_at |-> expires, athlete |-> athlete]

NoAthlete == [id |-> NoneId, name |-> ""]
AllKeys == {"access_token", "refresh_token", "expires_at"}

FailedAnswers ==
    {Answer(k, {}, <<"", "">>, 0, NoAthlete) : k \in {"transport", "non2xx", "nonjson"}}

(* 2xx JSON answers that lack one of the keys the code indexes.            *)
LackingAnswers ==
    {Answer("json", AllKeys \ {k}, <<"A1", "R1">>, StartTime + EXPIRY_BUFFER, NoAthlete) :
        k \in {"access_token", "expires_at"}}

(* Answers to the code grant: they carry the athlete object.               *)
ExchangeAnswers ==
    FailedAnswers \cup LackingAnswers
        \cup {Answer("json", AllKeys \ {"refresh_token"}, <<"A1", "R1">>,
                     StartTime + EXPIRY_BUFFER, NoAthlete)}
        \cup {Answer("json", AllKeys, ExchangePair, e, a) :
                 e \in ExpiresChoices, a \in AthleteObjects}

(* Answers to the refresh grant: no athlete object; the new refresh token  *)
(* may be left out, or be there with an empty value.                       *)
RefreshAnswers ==
    FailedAnswers \cup LackingAnswers
        \cup {Answer("json", AllKeys, <<"A2", "">>, StartTime + EXPIRY_BUFFER, NoAthlete)}
        \cup {Answer("json", ks, RefreshPair, e, NoAthlete) :
                 ks \in {AllKeys, AllKeys \ {"refresh_token"}},
                 e \in ExpiresChoices}

(* ---------------------------- StravaOAuthClient ----------------------- *)
(* The ValueError that _load_config_from_env raises.                       *)
ConfigError ==
    "ValueError: STRAVA_CLIENT_ID and STRAVA_CLIENT_SECRET environment variables are required"

(* client_id and client_secret as an explicit StravaOAuthConfig holds them  *)
(* or as os.getenv returns them (NoneStr: not set).                        *)
Configs == [client_id : {NoneStr, "", "cid"}, client_secret : {NoneStr, "", "sec"}]

(* _load_config_from_env: raises when either variable is unset or empty.   *)
LoadConfigFromEnv(env) ==
    IF ~Truthy(env.client_id) \/ ~Truthy(env.client_secret)
    THEN [exc |-> ConfigError, config |-> <<>>]
    ELSE [exc |-> "", config |-> <<env>>]

(* StravaOAuthClient(config): a given config (<<c>>) is kept as it is; with *)
(* none (<<>>) the configuration is loaded from the environment.          *)
NewClient(config, env) ==
    IF config # <<>> THEN [exc |-> "", config |-> config]
    ELSE LoadConfigFromEnv(env)

(* The result of one operation: what it returns (kind "token", "none",     *)
(* "bool", "map", "tokens", "client", "saved") or raises (kind "raise",    *)
(* exc), the file it leaves, the number of POSTs to the token endpoint and *)
(* of writes of the token file (by save_token or by delete_token), and the *)
(* kind of answer the POST got ("" when there was no POST).                *)
Outcome(kind, val, exc, file, posts, saves) ==
    [kind |-> kind, val |-> val, exc |-> exc, file |-> file,
     posts |-> posts, saves |-> saves, http |-> ""]

Posted(answer, o) == [o EXCEPT !.http = answer.kind]

(* Mutant of _exchange_code_for_token: a failed POST empties the store.     *)
ExchangeCodeForToken_WritesOnFailure(f, answer) ==
    Posted(answer,
    IF answer.kind # "json" THEN Outcome("none", NoToken, "", WriteTokens(EmptyMap), 1, 0)
    ELSE IF ~({"access_token", "refresh_token", "expires_at"} \subseteq answer.keys)
         THEN Outcome("raise", NoToken, "KeyError", f, 1, 0)
    ELSE LET token == AthleteToken(answer.athlete.id, answer.athlete.name,
                                   answer.access_token, answer.refresh_token,
                                   answer.expires_at, "Bearer", DEFAULT_SCOPES)
             s == save_token(f, token)
         IN IF s.exc # "" THEN Outcome("raise", NoToken, s.exc, f, 1, 1)
            ELSE Outcome("token", Some(token), "", s.file, 1, 1))

(* Mutant of _exchange_code_for_token: a failed POST is tried again.        *)
ExchangeCodeForToken_Retries(f, answer) ==
    Posted(answer,
    IF answer.kind # "json" THEN Outcome("none", NoToken, "", f, 2, 0)
    ELSE IF ~({"access_token", "refresh_token", "expires_at"} \subseteq answer.keys)
         THEN Outcome("raise", NoToken, "KeyError", f, 1, 0)
    ELSE LET token == AthleteToken(answer.athlete.id, answer.athlete.name,
                                   answer.access_token, answer.refresh_token,
                                   answer.expires_at, "Bearer", DEFAULT_SCOPES)
             s == save_token(f, token)
         IN IF s.exc # "" THEN Outcome("raise", NoToken, s.exc, f, 1, 1)
            ELSE Outcome("token", Some(token), "", s.file, 1, 1))

(* _exchange_code_for_token: POST, raise_for_status, json, build the token *)
(* (data["access_token"] and the like raise KeyError on a missing key,     *)
(* which except requests.RequestException does not catch), save, return.   *)
ExchangeCodeForToken(f, answer) ==
    Posted(answer,
    IF answer.kind # "json" THEN Outcome("none", NoToken, "", f, 1, 0)
    ELSE IF ~({"access_token", "refresh_token", "expires_at"} \subseteq answer.keys)
         THEN Outcome("raise", NoToken, "KeyError", f, 1, 0)
    ELSE LET token == AthleteToken(answer.athlete.id, answer.athlete.name,
                                   answer.access_token, answer.refresh_token,
                                   answer.expires_at, "Bearer", DEFAULT_SCOPES)
             s == save_token(f, token)
         IN IF s.exc # "" THEN Outcome("raise", NoToken, s.exc, f, 1, 1)
            ELSE Outcome("token", Some(token), "", s.file, 1, 1))

(* Mutant of refresh_token: a failed exchange deletes the stale token.      *)
RefreshToken_DeletesOnFailure(f, id, answer) ==
    LET g == get_token(f, id) IN
    IF g.exc # "" THEN Outcome("raise", NoToken, g.exc, f, 0, 0)
    ELSE IF g.tok = NoToken THEN Outcome("none", NoToken, "", f, 0, 0)
    ELSE Posted(answer,
         IF answer.kind # "json"
         THEN Outcome("none", NoToken, "", delete_token(f, id).file, 1, 0)
    ELSE IF ~({"access_token", "expires_at"} \subseteq answer.keys)
         THEN Outcome("raise", NoToken, "KeyError", f, 1, 0)
    ELSE LET token == g.tok[1]
             updated == AthleteToken(
                 token.athlete_id, token.athlete_name, answer.access_token,
                 IF "refresh_token" \in answer.keys
                     THEN answer.refresh_token ELSE token.refresh_token,
                 answer.expires_at, "Bearer", token.scopes)
             s == save_token(f, updated)
         IN IF s.exc # "" THEN Outcome("raise", NoToken, s.exc, f, 1, 1)
            ELSE Outcome("token", Some(updated), "", s.file, 1, 1))

(* refresh_token: get the stored token (None: return None), POST, build    *)
(* the updated token keeping id, name and scopes, save, return.            *)
RefreshToken(f, id, answer) ==
    LET g == get_token(f, id) IN
    IF g.exc # "" THEN Outcome("raise", NoToken, g.exc, f, 0, 0)
    ELSE IF g.tok = NoToken THEN Outcome("none", NoToken, "", f, 0, 0)
    ELSE Posted(answer,
         IF answer.kind # "json" THEN Outcome("none", NoToken, "", f, 1, 0)
    ELSE IF ~({"access_token", "expires_at"} \subseteq answer.keys)
         THEN Outcome("raise", NoToken, "KeyError", f, 1, 0)
    ELSE LET token == g.tok[1]
             updated == AthleteToken(
                 token.athlete_id, token.athlete_name, answer.access_token,
                 IF "refresh_token" \in answer.keys
                     THEN answer.refresh_token ELSE token.refresh_token,
                 answer.expires_at, "Bearer", token.scopes)
             s == save_token(f, updated)
         IN IF s.exc # "" THEN Outcome("raise", NoToken, s.exc, f, 1, 1)
            ELSE Outcome("token", Some(updated), "", s.file, 1, 1))

(* Mutant of get_valid_token: the expiry test is left out.                 *)
GetValidToken_AlwaysRefresh(f, id, answer, t) ==
    LET g == get_token(f, id) IN
    IF g.exc # "" THEN Outcome("raise", NoToken, g.exc, f, 0, 0)
    ELSE IF g.tok = NoToken THEN Outcome("none", NoToken, "", f, 0, 0)
    ELSE RefreshToken(f, id, answer)

(* get_valid_token at time t: the stored token when it is not expired,     *)
(* otherwise what refresh_token returns.                                   *)
GetValidToken(f, id, answer, t) ==
    LET g == get_token(f, id) IN
    IF g.exc # "" THEN Outcome("raise", NoToken, g.exc, f, 0, 0)
    ELSE IF g.tok = NoToken THEN Outcome("none", NoToken, "", f, 0, 0)
    ELSE IF is_expired(g.tok[1], t) THEN RefreshToken(f, id, answer)
    ELSE Outcome("token", g.tok, "", f, 0, 0)


(* ------------------------- OAuthCallbackHandler ----------------------- *)
(* A GET request: its path and the raw values of the code and error query  *)
(* parameters (NoneStr: the parameter is not in the query).                *)
Requests ==
    [path : {"/callback", "/cb"},
     code : {NoneStr, "", "X", "Y"},
     error : {NoneStr, "access_denied"}]

(* parse_qs keeps a parameter only when its value is not blank.            *)
InParams(raw) == raw # NoneStr /\ raw # ""

(* do_GET: the class attributes after the request, and the status sent.    *)
do_GET(h, req) ==
    IF req.path = "/callback"
    THEN IF InParams(req.code)
         THEN [handler |-> [h EXCEPT !.authorization_code = req.code], status |-> 200]
         ELSE IF InParams(req.error)
         THEN [handler |-> [h EXCEPT !.error = req.error], status |-> 400]
         ELSE [handler |-> h, status |-> 400]
    ELSE [handler |-> h, status |-> 404]

(* The requests on which do_GET assigns a class attribute.                 *)
Assigns(req) == req.path = "/callback" /\ (InParams(req.code) \/ InParams(req.error))

NoRequest == [path |-> "", code |-> NoneStr, error |-> NoneStr]

(* ---------------------------- redirect_uri ---------------------------- *)
(* urlparse(redirect_uri): its port (NonePort: the URI names none) and its *)
(* path.                                                                   *)
NonePort == 0
DEFAULT_REDIRECT_URI == [port |-> DEFAULT_PORT, path |-> "/callback"]
RedirectUris ==
    {DEFAULT_REDIRECT_URI, [port |-> 9000, path |-> "/cb"],
     [port |-> NonePort, path |-> "/callback"]}

(* The redirect_uri of the second client.                                  *)
OtherRedirectUri == [port |-> 8090, path |-> "/callback"]

(* port = parsed.port or 8089                                              *)
PortOf(uri) == IF uri.port = NonePort THEN DEFAULT_PORT ELSE uri.port

(* ------------------------------- state -------------------------------- *)
NoServer ==
    [bound |-> FALSE, port |-> NonePort, shutdown_request |-> FALSE,
     is_shut_down |-> FALSE]
NoThread == [state |-> "none", start_time |-> 0, timeout |-> 0, wait_start |-> 0]
NoAuth ==
    [timeout |-> 0, join_start |-> 0, redirect_uri |-> DEFAULT_REDIRECT_URI,
     browser |-> "no", url_printed |-> FALSE]
NoOther == [pc |-> "idle", server |-> NoServer, thread |-> NoThread, auth |-> NoAuth]
NoRet ==
    [op |-> "", arg |-> NoneId, kind |-> "none", val |-> NoToken, exc |-> "",
     posts |-> 0, saves |-> 0, http |-> "", pre |-> AbsentFile, at |-> 0]

Returned(op, arg, o) ==
    [op |-> op, arg |-> arg, kind |-> o.kind, val |-> o.val, exc |-> o.exc,
     posts |-> o.posts, saves |-> o.saves, http |-> o.http, pre |-> token_file,
     at |-> now]

Init ==
    /\ now = StartTime
    /\ token_file \in {AbsentFile, GarbageFile, MismatchFile}
    /\ handler = [authorization_code |-> NoneStr, error |-> NoneStr,
                  request |-> NoRequest, status |-> 0, by |-> 0]
    /\ server = NoServer
    /\ thread = NoThread
    /\ pc = "idle"
    /\ auth = NoAuth
    /\ ret = NoRet
    /\ calls = IF token_file = MismatchFile THEN MaxCalls - 1 ELSE 0
    /\ other = NoOther

(* ------------------ operations of the caller thread ------------------- *)
CanCall == pc = "idle" /\ calls < MaxCalls

Finish(op, arg, o) ==
    /\ token_file' = o.file
    /\ ret' = Returned(op, arg, o)
    /\ calls' = calls + 1
    /\ UNCHANGED <<now, handler, server, thread, pc, auth, other>>

CallExchangeCode ==
    /\ CanCall
    /\ \E answer \in ExchangeAnswers :
          Finish("_exchange_code_for_token", NoneId,
                 ExchangeCodeForToken(token_file, answer))

CallRefreshToken ==
    /\ CanCall
    /\ \E id \in AthleteIds, answer \in RefreshAnswers :
          Finish("refresh_token", id, RefreshToken(token_file, id, answer))

CallGetValidToken ==
    /\ CanCall
    /\ \E id \in AthleteIds, answer \in RefreshAnswers :
          Finish("get_valid_token", id, GetValidToken(token_file, id, answer, now))

CallRemoveAthlete ==
    /\ CanCall
    /\ \E id \in AthleteIds :
          LET d == delete_token(token_file, id) IN
          Finish("remove_athlete", id,
                 IF d.exc # "" THEN Outcome("raise", NoToken, d.exc, d.file, 0, d.writes)
                 ELSE Outcome("bool", d.result, "", d.file, 0, d.writes))

CallListAthletes ==
    /\ CanCall
    /\ LET l == list_athletes(token_file) IN
       Finish("list_athletes", NoneId,
              IF l.exc # "" THEN Outcome("raise", NoToken, l.exc, token_file, 0, 0)
              ELSE Outcome("map", l.names, "", token_file, 0, 0))

(* StravaOAuthClient(config) with the environment env; the environment is  *)
(* read only when no config is given. The construction reads nothing of    *)
(* the clock, the token file or the handler, so what the caller did before *)
(* changes nothing of it: it is taken from the initial states only.        *)
CallNewClient ==
    /\ CanCall
    /\ calls = 0
    /\ \E config \in {<<>>} \cup {<<c>> : c \in Configs} :
       \E env \in IF config = <<>> THEN Configs
                  ELSE {[client_id |-> NoneStr, client_secret |-> NoneStr]} :
          LET n == NewClient(config, env) IN
          Finish("StravaOAuthClient", NoneId,
                 Outcome(IF n.exc # "" THEN "raise" ELSE "client",
                         [given |-> config, env |-> env, config |-> n.config],
                         n.exc, token_file, 0, 0))

(* TokenStorage.load_tokens called on its own.                             *)
CallLoadTokens ==
    /\ CanCall
    /\ LET l == load_tokens(token_file) IN
       Finish("load_tokens", NoneId,
              IF l.exc # "" THEN Outcome("raise", NoToken, l.exc, token_file, 0, 0)
              ELSE Outcome("tokens", l.tokens, "", token_file, 0, 0))
(* TokenStorage.get_token called on its own.                               *)
CallGetToken ==
    /\ CanCall
    /\ \E id \in AthleteIds :
          LET g == get_token(token_file, id) IN
          Finish("get_token", id,
                 IF g.exc # "" THEN Outcome("raise", NoToken, g.exc, token_file, 0, 0)
                 ELSE IF g.tok = NoToken THEN Outcome("none", NoToken, "", token_file, 0, 0)
                 ELSE Outcome("token", g.tok, "", token_file, 0, 0))

(* TokenStorage.save_token called on its own with a well-typed token.      *)
Credentials ==
    {AthleteToken(i, Names[i], a, r, e, "Bearer", DEFAULT_SCOPES) :
        i \in AthleteIds, a \in {"A1"}, r \in {"R1"}, e \in ExpiresChoices}

CallSaveToken ==
    /\ CanCall
    /\ \E c \in Credentials :
          LET s == save_token(token_file, c) IN
          Finish("save_token", c.athlete_id,
                 IF s.exc # "" THEN Outcome("raise", Some(c), s.exc, s.file, 0, 1)
                 ELSE Outcome("saved", Some(c), "", s.file, 0, 1))

(* AthleteToken.is_expired called on a token, at the current time; the     *)
(* token's expires_at is recorded as the argument.                         *)
CallIsExpired ==
    /\ CanCall
    /\ \E c \in Credentials :
          Finish("is_expired", c.expires_at,
                 Outcome("bool", is_expired(c, now), "", token_file, 0, 0))

(* Mutant of AuthorizeStart: the browser is opened and the URL printed     *)
(* before the socket is bound.                                             *)
AuthorizeStart_BrowserBeforeBind ==
    /\ CanCall
    /\ calls = 0
    /\ now = StartTime
    /\ token_file = AbsentFile
    /\ \E timeout \in 1..MaxTimeout, port_taken \in BOOLEAN, uri \in RedirectUris :
          /\ handler' = [handler EXCEPT !.authorization_code = NoneStr,
                                        !.error = NoneStr, !.by = 0]
          /\ calls' = calls + 1
          /\ IF port_taken \/ server.bound
             THEN /\ ret' = Returned("authorize_athlete", NoneId,
                                     Outcome("raise", NoToken, "OSError",
                                             token_file, 0, 0))
                  /\ auth' = [auth EXCEPT !.browser = "opened", !.url_printed = TRUE]
                  /\ UNCHANGED <<server, thread, pc>>
             ELSE /\ server' = [bound |-> TRUE, port |-> PortOf(uri),
                                shutdown_request |-> FALSE, is_shut_down |-> FALSE]
                  /\ thread' = [state |-> "starting", start_time |-> 0,
                                timeout |-> timeout, wait_start |-> 0]
                  /\ auth' = [timeout |-> timeout, join_start |-> 0,
                              redirect_uri |-> uri, browser |-> "opened",
                              url_printed |-> TRUE]
                  /\ pc' = "browser"
                  /\ UNCHANGED ret
    /\ UNCHANGED <<now, token_file, other>>

(* authorize_athlete up to the start of the listener thread: reset the     *)
(* handler's class attributes, bind the listening socket (OSError when the *)
(* port is taken, which leaves the call at once), start the thread.        *)
(* The call reads and writes nothing of the token file and, once its       *)
(* socket is bound, never returns (see AuthorizeShutdown), so what the     *)
(* caller did before it and what the file holds change nothing of it: it   *)
(* is started from the initial state without a token file only, which      *)
(* keeps the state space a sum, not a product.                             *)
AuthorizeStart ==
    /\ CanCall
    /\ calls = 0
    /\ now = StartTime
    /\ token_file = AbsentFile
    /\ \E timeout \in 1..MaxTimeout, port_taken \in BOOLEAN, uri \in RedirectUris :
          /\ handler' = [handler EXCEPT !.authorization_code = NoneStr,
                                        !.error = NoneStr, !.by = 0]
          /\ calls' = calls + 1
          /\ IF port_taken \/ server.bound
             THEN /\ ret' = Returned("authorize_athlete", NoneId,
                                     Outcome("raise", NoToken, "OSError",
                                             token_file, 0, 0))
                  /\ UNCHANGED <<server, thread, pc, auth>>
             ELSE /\ server' = [bound |-> TRUE, port |-> PortOf(uri),
                                shutdown_request |-> FALSE, is_shut_down |-> FALSE]
                  /\ thread' = [state |-> "starting", start_time |-> 0,
                                timeout |-> timeout, wait_start |-> 0]
                  /\ auth' = [timeout |-> timeout, join_start |-> 0,
                              redirect_uri |-> uri, browser |-> "no",
                              url_printed |-> FALSE]
                  /\ pc' = "browser"
                  /\ UNCHANGED ret
    /\ UNCHANGED <<now, token_file, other>>

(* authorize_athlete from the authorization URL to the join: webbrowser    *)
(* .open(auth_url), whose exception is caught and answered by a printed    *)
(* fallback, then the URL is printed; the join starts.                     *)
AuthorizeOpenBrowser ==
    /\ pc = "browser"
    /\ \E opened \in BOOLEAN :
          auth' = [auth EXCEPT !.browser = IF opened THEN "opened" ELSE "failed",
                               !.url_printed = TRUE,
                               !.join_start = now]
    /\ pc' = "join"
    /\ UNCHANGED <<now, token_file, handler, server, thread, ret, calls, other>>

(* server_thread.join(timeout=timeout + 5) returns when the thread has     *)
(* ended or the bound has elapsed.                                         *)
AuthorizeJoin ==
    /\ pc = "join"
    /\ \/ thread.state = "done"
       \/ now - auth.join_start >= auth.timeout + JOIN_GRACE
    /\ pc' = "shutdown"
    /\ UNCHANGED <<now, token_file, handler, server, thread, auth, ret, calls, other>>

(* server.shutdown(): sets the shutdown request and waits for the event    *)
(* is_shut_down. Only serve_forever sets that event, and nothing calls     *)
(* serve_forever, so the wait has no step that ends it.                    *)
AuthorizeShutdown ==
    /\ pc = "shutdown"
    /\ server' = [server EXCEPT !.shutdown_request = TRUE]
    /\ pc' = "shutdown_wait"
    /\ UNCHANGED <<now, token_file, handler, thread, auth, ret, calls, other>>

(* ------------------------ the listener thread ------------------------- *)
(* _run_server: start_time = time.time().                                  *)
RunServerStart ==
    /\ thread.state = "starting"
    /\ thread' = [thread EXCEPT !.state = "loop", !.start_time = now]
    /\ UNCHANGED <<now, token_file, handler, server, pc, auth, ret, calls, other>>

(* The loop test and the break; otherwise into handle_request.             *)
RunServerLoop ==
    /\ thread.state = "loop"
    /\ thread' =
          IF ~((now - thread.start_time) < thread.timeout)
             \/ Truthy(handler.authorization_code) \/ Truthy(handler.error)
          THEN [thread EXCEPT !.state = "done"]
          ELSE [thread EXCEPT !.state = "select", !.wait_start = now]
    /\ UNCHANGED <<now, token_file, handler, server, pc, auth, ret, calls, other>>

(* handle_request: a request arrives and do_GET handles it.                *)
HandleRequest ==
    /\ thread.state \in {"select", "reading"}
    /\ \E req \in Requests :
          LET r == do_GET(handler, req) IN
          handler' = [r.handler EXCEPT !.request = req, !.status = r.status,
                                       !.by = IF Assigns(req) THEN 1 ELSE @]
    /\ thread' = [thread EXCEPT !.state = "loop"]
    /\ UNCHANGED <<now, token_file, server, pc, auth, ret, calls, other>>

(* handle_request: nothing connects within the socket timeout.             *)
HandleTimeout ==
    /\ thread.state = "select"
    /\ now - thread.wait_start >= SOCKET_TIMEOUT
    /\ thread' = [thread EXCEPT !.state = "loop"]
    /\ UNCHANGED <<now, token_file, handler, server, pc, auth, ret, calls, other>>

(* handle_request: a client connects and sends nothing yet; the accepted   *)
(* socket has no timeout, so the handler's readline waits for the client.  *)
ClientConnects ==
    /\ thread.state = "select"
    /\ thread' = [thread EXCEPT !.state = "reading"]
    /\ UNCHANGED <<now, token_file, handler, server, pc, auth, ret, calls, other>>

(* The connected client closes without a request: back to the loop.        *)
ClientCloses ==
    /\ thread.state = "reading"
    /\ thread' = [thread EXCEPT !.state = "loop"]
    /\ UNCHANGED <<now, token_file, handler, server, pc, auth, ret, calls, other>>

(* ---------------- a second attempt, by another thread ----------------- *)
(* Another thread calls authorize_athlete on a second StravaOAuthClient,   *)
(* whose redirect_uri names another port (the first port is still bound),  *)
(* after the first call has gone past its join and left its listener       *)
(* alive, waiting for the request of a client that connected. The handler  *)
(* class, and so its class attributes, is the same for both clients.       *)
OtherAuthorizeStart ==
    /\ pc = "shutdown_wait"
    /\ thread.state = "reading"
    /\ other.pc = "idle"
    /\ \E timeout \in 1..MaxTimeout :
          other' = [pc |-> "join",
                    server |-> [bound |-> TRUE, port |-> PortOf(OtherRedirectUri),
                                shutdown_request |-> FALSE, is_shut_down |-> FALSE],
                    thread |-> [state |-> "starting", start_time |-> 0,
                                timeout |-> timeout, wait_start |-> 0],
                    auth |-> [timeout |-> timeout, join_start |-> now,
                              redirect_uri |-> OtherRedirectUri,
                              browser |-> "opened", url_printed |-> TRUE]]
    /\ handler' = [handler EXCEPT !.authorization_code = NoneStr,
                                  !.error = NoneStr, !.by = 0]
    /\ UNCHANGED <<now, token_file, server, thread, pc, auth, ret, calls>>

OtherAuthorizeJoin ==
    /\ other.pc = "join"
    /\ \/ other.thread.state = "done"
       \/ now - other.auth.join_start >= other.auth.timeout + JOIN_GRACE
    /\ other' = [other EXCEPT !.pc = "shutdown"]
    /\ UNCHANGED <<now, token_file, handler, server, thread, pc, auth, ret, calls>>

OtherAuthorizeShutdown ==
    /\ other.pc = "shutdown"
    /\ other' = [other EXCEPT !.pc = "shutdown_wait", !.server.shutdown_request = TRUE]
    /\ UNCHANGED <<now, token_file, handler, server, thread, pc, auth, ret, calls>>

(* The listener thread of the second attempt: _run_server as above.        *)
OtherRunServerStart ==
    /\ other.thread.state = "starting"
    /\ other' = [other EXCEPT !.thread.state = "loop", !.thread.start_time = now]
    /\ UNCHANGED <<now, token_file, handler, server, thread, pc, auth, ret, calls>>

OtherRunServerLoop ==
    /\ other.thread.state = "loop"
    /\ other' =
          IF ~((now - other.thread.start_time) < other.thread.timeout)
             \/ Truthy(handler.authorization_code) \/ Truthy(handler.error)
          THEN [other EXCEPT !.thread.state = "done"]
          ELSE [other EXCEPT !.thread.state = "select", !.thread.wait_start = now]
    /\ UNCHANGED <<now, token_file, handler, server, thread, pc, auth, ret, calls>>

OtherHandleRequest ==
    /\ other.thread.state \in {"select", "reading"}
    /\ \E req \in Requests :
          LET r == do_GET(handler, req) IN
          handler' = [r.handler EXCEPT !.request = req, !.status = r.status,
                                       !.by = IF Assigns(req) THEN 2 ELSE @]
    /\ other' = [other EXCEPT !.thread.state = "loop"]
    /\ UNCHANGED <<now, token_file, server, thread, pc, auth, ret, calls>>

OtherHandleTimeout ==
    /\ other.thread.state = "select"
    /\ now - other.thread.wait_start >= SOCKET_TIMEOUT
    /\ other' = [other EXCEPT !.thread.state = "loop"]
    /\ UNCHANGED <<now, token_file, handler, server, thread, pc, auth, ret, calls>>

OtherClientConnects ==
    /\ other.thread.state = "select"
    /\ other' = [other EXCEPT !.thread.state = "reading"]
    /\ UNCHANGED <<now, token_file, handler, server, thread, pc, auth, ret, calls>>

OtherClientCloses ==
    /\ other.thread.state = "reading"
    /\ other' = [other EXCEPT !.thread.state = "loop"]
    /\ UNCHANGED <<now, token_file, handler, server, thread, pc, auth, ret, calls>>

(* ------------------------------- time --------------------------------- *)
(* The clock is followed to StartTime + MaxTicks and, beyond that, for as  *)
(* long as a join in progress still waits for its bound to elapse or a     *)
(* listener in its loop is still within its timeout. The statements from   *)
(* the thread's start to the join take less than one unit of the clock.    *)
InLoop(t) ==
    t.state \in {"loop", "select", "reading"} /\ now - t.start_time < t.timeout

Tick ==
    /\ pc # "browser"
    /\ \/ now < StartTime + MaxTicks
       \/ pc = "join" /\ now - auth.join_start < auth.timeout + JOIN_GRACE
       \/ InLoop(thread)
       \/ InLoop(other.thread)
    /\ now' = now + 1
    /\ UNCHANGED <<token_file, handler, server, thread, pc, auth, ret, calls, other>>

CallerNext ==
    \/ CallExchangeCode
    \/ CallRefreshToken
    \/ CallGetValidToken
    \/ CallRemoveAthlete
    \/ CallListAthletes
    \/ CallLoadTokens
    \/ CallNewClient
    \/ CallGetToken
    \/ CallSaveToken
    \/ CallIsExpired
    \/ AuthorizeStart
    \/ AuthorizeOpenBrowser
    \/ AuthorizeJoin
    \/ AuthorizeShutdown

ListenerNext ==
    \/ RunServerStart
    \/ RunServerLoop
    \/ HandleRequest
    \/ HandleTimeout
    \/ ClientConnects
    \/ ClientCloses

OtherNext ==
    \/ OtherAuthorizeStart
    \/ OtherAuthorizeJoin
    \/ OtherAuthorizeShutdown
    \/ OtherRunServerStart
    \/ OtherRunServerLoop
    \/ OtherHandleRequest
    \/ OtherHandleTimeout
    \/ OtherClientConnects
    \/ OtherClientCloses

Next == CallerNext \/ ListenerNext \/ OtherNext \/ Tick

Spec == Init /\ [][Next]_vars

(* The scheduler runs every thread that can take a step, and time passes:  *)
(* weak fairness of the caller's steps inside authorize_athlete, of the    *)
(* listener's own steps, and of the clock. Nothing is assumed of the       *)
(* browser: no request need ever arrive.                                   *)
FairSpec ==
    /\ Spec
    /\ WF_vars(AuthorizeOpenBrowser)
    /\ WF_vars(AuthorizeJoin)
    /\ WF_vars(AuthorizeShutdown)
    /\ WF_vars(RunServerStart)
    /\ WF_vars(RunServerLoop)
    /\ WF_vars(HandleTimeout)
    /\ WF_vars(OtherAuthorizeJoin)
    /\ WF_vars(OtherAuthorizeShutdown)
    /\ WF_vars(OtherRunServerStart)
    /\ WF_vars(OtherRunServerLoop)
    /\ WF_vars(OtherHandleTimeout)
    /\ WF_vars(Tick)


(* ------------------------------ properties ---------------------------- *)
(* What get_token found for the argument of the last operation in the file *)
(* as it was before that operation.                                        *)
StoredBefore == get_token(ret.pre, ret.arg)
HadToken == StoredBefore.exc = "" /\ StoredBefore.tok # NoToken

CodeCaptured == Truthy(handler.authorization_code)
ErrorCaptured == Truthy(handler.error)

(* C1: every call of authorize_athlete eventually returns to its caller    *)
(* (with a token or None), whether a code, an error or nothing arrived:    *)
(* a caller waiting in the join is eventually back from the call.          *)
C1_AuthorizeReturns == (pc = "join") ~> (pc = "idle")

(* C2: once an attempt has gone past waiting on the listener, the          *)
(* listening socket bound for it has been closed.                          *)
C2_SocketClosedOnceResolved ==
    pc \in {"shutdown", "shutdown_wait"} => ~server.bound

(* C3: a /callback request with code=X makes the captured result the code  *)
(* X; one with error=E and no code makes it the error E; and an attempt    *)
(* that got past the join with neither recorded is reported as timed out   *)
(* (authorize_athlete returns None).                                       *)
C3_CallbackResult ==
    /\ [](handler.request.path = "/callback" /\ InParams(handler.request.code)
            => handler.authorization_code = handler.request.code)
    /\ [](handler.request.path = "/callback" /\ ~InParams(handler.request.code)
            /\ InParams(handler.request.error)
            => handler.error = handler.request.error)
    /\ (pc = "shutdown" /\ ~CodeCaptured /\ ~ErrorCaptured)
          ~> (pc = "idle" /\ ret.op = "authorize_athlete" /\ ret.kind = "none")

(* C4: get_valid_token(P) posts the refresh exchange exactly once when the *)
(* stored token of P is_expired() and not at all when it is not.           *)
C4_RefreshOnceIffExpired ==
    (ret.op = "get_valid_token" /\ HadToken)
        => ret.posts = IF is_expired(StoredBefore.tok[1], ret.at) THEN 1 ELSE 0

C4_Witness ==
    /\ ret.op = "get_valid_token" /\ HadToken
    /\ is_expired(StoredBefore.tok[1], ret.at)
    /\ ret.posts = 1

(* C5: a stored token of P that is not within 300 seconds of its expiry is *)
(* returned by get_valid_token(P) equal in every field, with no POST to    *)
(* the token endpoint and no write of the store.                           *)
C5_ValidReturnedAsIs ==
    (ret.op = "get_valid_token" /\ HadToken
        /\ ret.at < StoredBefore.tok[1].expires_at - 300)
        => /\ ret.kind = "token"
           /\ ret.val = StoredBefore.tok
           /\ ret.posts = 0
           /\ ret.saves = 0
           /\ token_file = ret.pre

C5_Witness ==
    /\ ret.op = "get_valid_token" /\ HadToken
    /\ ret.at = StoredBefore.tok[1].expires_at - 301
    /\ ret.kind = "token"
    /\ ret.posts = 0

(* C6: when the refresh exchange for P fails (transport failure or a       *)
(* non-2xx answer), get_valid_token(P) and refresh_token(P) return None    *)
(* and the store holds the credential of P it held before, unchanged.      *)
C6_FailedRefreshKeepsStale ==
    (ret.op \in {"refresh_token", "get_valid_token"}
        /\ ret.http \in {"transport", "non2xx"})
        => /\ ret.kind = "none"
           /\ HadToken
           /\ get_token(token_file, ret.arg) = StoredBefore
           /\ token_file = ret.pre

C6_Witness ==
    /\ ret.op = "get_valid_token"
    /\ ret.http = "non2xx"
    /\ ret.kind = "none"
    /\ get_token(token_file, ret.arg).tok # NoToken

(* C7: whenever _exchange_code_for_token or refresh_token returns a token  *)
(* c, save_token was called exactly once and get_token(c.athlete_id)       *)
(* equals c at the moment of return.                                       *)
C7_ReturnedTokenIsStored ==
    (ret.op \in {"_exchange_code_for_token", "refresh_token"} /\ ret.kind = "token")
        => /\ ret.saves = 1
           /\ get_token(token_file, ret.val[1].athlete_id)
                 = [exc |-> "", tok |-> ret.val]

(* C8: whatever the token endpoint answers, the operations that post to it *)
(* return a token or None and never raise.                                 *)
C8_NoExchangeErrorEscapes ==
    (ret.op \in {"_exchange_code_for_token", "refresh_token", "get_valid_token",
                 "authorize_athlete"}
        /\ ret.http # "")
        => ret.kind \in {"token", "none"}

(* C9: is_expired() is true exactly when now >= expires_at - 300; it is    *)
(* true at now = expires_at - 300 and false at now = expires_at - 301.     *)
C9_ExpiredIffWithinBuffer ==
    ret.op = "is_expired"
        => /\ ret.val <=> (ret.at >= ret.arg - 300)
           /\ ret.at = ret.arg - 300 => ret.val
           /\ ret.at = ret.arg - 301 => ~ret.val

C9_Witness ==
    /\ ret.op = "is_expired"
    /\ ret.at = ret.arg - 300
    /\ ret.val

(* C10: for every credential c and every prior content of the store,       *)
(* save_token(c) followed by get_token(c.athlete_id) returns c, and the    *)
(* store holds one record for that athlete.                                *)
C10_SaveThenGet ==
    ret.op = "save_token"
        => /\ get_token(token_file, ret.arg) = [exc |-> "", tok |-> ret.val]
           /\ Cardinality({k \in DOMAIN token_file.doc :
                              token_file.doc[k].athlete_id = ret.arg}) = 1

(* C11: delete_token(P) on a store that holds P returns true and           *)
(* get_token(P) is absent afterwards; on a store that does not hold P it   *)
(* returns false.                                                          *)
C11_DeleteThenGet ==
    ret.op = "remove_athlete"
        => /\ ret.kind = "bool"
           /\ ret.val <=> HadToken
           /\ get_token(token_file, ret.arg) = [exc |-> "", tok |-> NoToken]

(* C12: after any sequence of save, delete, code exchange and refresh,     *)
(* list_athletes() returns exactly the ids in the store, each mapped to    *)
(* the athlete_name of its token.                                          *)
C12_ListMatchesStore ==
    ret.op = "list_athletes"
        => /\ ret.kind = "map"
           /\ \A i \in AthleteIds :
                 LET g == get_token(token_file, i) IN
                 /\ g.exc = ""
                 /\ (i \in DOMAIN ret.val) <=> (g.tok # NoToken)
                 /\ i \in DOMAIN ret.val => ret.val[i] = g.tok[1].athlete_name
           /\ DOMAIN ret.val \subseteq AthleteIds

(* C13: after the authorization of athlete P has succeeded (the code       *)
(* exchange returned P's token), get_token(P) is a token whose expires_at  *)
(* is in the future and whose is_expired() is false, whatever expires_at   *)
(* the token endpoint answered with.                                       *)
C13_FreshAfterAuthorize ==
    (/\ ret.op = "_exchange_code_for_token"
     /\ ret.kind = "token"
     /\ ret.val[1].athlete_id \in AthleteIds)
        => LET g == get_token(token_file, ret.val[1].athlete_id) IN
           /\ g.tok # NoToken
           /\ g.tok[1].expires_at > ret.at
           /\ ~is_expired(g.tok[1], ret.at)

(* C14: when the token file exists and is not syntactically valid JSON,    *)
(* load_tokens() returns the empty map and does not raise.                 *)
C14_GarbageLoadsEmpty ==
    (ret.op = "load_tokens" /\ ret.pre.kind = "garbage")
        => ret.kind = "tokens" /\ ret.val = EmptyMap

C14_Witness ==
    /\ ret.op = "load_tokens"
    /\ ret.pre.kind = "garbage"
    /\ ret.kind = "tokens"
    /\ ret.val = EmptyMap

(* C15: whatever the token file holds, load_tokens, get_token,             *)
(* list_athletes, save_token and delete_token do not raise: a store that   *)
(* cannot be read as a map of tokens is treated as empty.                  *)
C15_StoreOpsNeverRaise ==
    ret.op \in {"load_tokens", "get_token", "list_athletes", "save_token",
                "remove_athlete"}
        => ret.kind # "raise"

(* C16: constructing the client fails with the configuration error exactly *)
(* when client_id or client_secret is absent or empty, whether they come   *)
(* from the environment or from an explicit StravaOAuthConfig; and no      *)
(* other operation raises the configuration error.                         *)
C16_ConfigurationError ==
    /\ ret.op = "StravaOAuthClient"
          => LET used == IF ret.val.given # <<>> THEN ret.val.given[1]
                         ELSE ret.val.env
             IN (ret.kind = "raise" /\ ret.exc = ConfigError)
                   <=> (~Truthy(used.client_id) \/ ~Truthy(used.client_secret))
    /\ (ret.kind = "raise" /\ ret.exc = ConfigError) => ret.op = "StravaOAuthClient"

(* C17: a successful refresh returns and stores a token with the           *)
(* athlete_id, athlete_name and scopes of the stored one, and with a       *)
(* refresh_token that is never empty or null.                              *)
C17_RefreshKeepsIdentity ==
    (ret.op = "refresh_token" /\ ret.kind = "token" /\ HadToken)
        => LET old == StoredBefore.tok[1]
               new == ret.val[1]
           IN /\ new.athlete_id = old.athlete_id
              /\ new.athlete_name = old.athlete_name
              /\ new.scopes = old.scopes
              /\ get_token(token_file, ret.arg) = [exc |-> "", tok |-> ret.val]
              /\ Truthy(old.refresh_token) => Truthy(new.refresh_token)

(* C18: for an athlete id that is not in the store, get_valid_token and    *)
(* refresh_token return None, post nothing to the token endpoint and       *)
(* write nothing to the store.                                             *)
C18_UnknownAthleteIsNone ==
    (ret.op \in {"get_valid_token", "refresh_token"} /\ ~HadToken)
        => /\ ret.kind = "none"
           /\ ret.posts = 0
           /\ ret.saves = 0
           /\ token_file = ret.pre

(* C19: the first code or error captured freezes the result: in every      *)
(* reachable state at most one of authorization_code and error is set,     *)
(* and once one is set no request changes either; only the reset at the    *)
(* start of an attempt clears them.                                        *)
C19_FirstResultFreezes ==
    /\ [](~(CodeCaptured /\ ErrorCaptured))
    /\ [][(CodeCaptured \/ ErrorCaptured)
            => \/ /\ handler'.authorization_code = handler.authorization_code
                  /\ handler'.error = handler.error
               \/ /\ handler'.authorization_code = NoneStr
                  /\ handler'.error = NoneStr]_vars

(* C20: the callback result is attempt-scoped: a code or error that an     *)
(* attempt finds in the slot once it is past its join was recorded by the  *)
(* listener of that attempt, never by the listener of another attempt.     *)
C20_ResultIsAttemptScoped ==
    /\ (other.pc \in {"shutdown", "shutdown_wait"} /\ (CodeCaptured \/ ErrorCaptured))
          => handler.by = 2
    /\ (pc \in {"shutdown", "shutdown_wait"} /\ other.pc = "idle"
          /\ (CodeCaptured \/ ErrorCaptured))
          => handler.by = 1

(* C21: the listener thread always terminates: once started, _run_server   *)
(* eventually leaves its loop, also when no callback ever arrives and when *)
(* a client has connected without sending a request.                       *)
C21_ListenerTerminates == (thread.state = "starting") ~> (thread.state = "done")

C24_InvalidUntilReauthorized ==
    [][(/\ ret.op \in {"get_valid_token", "refresh_token"}
        /\ ret.posts = 1
        /\ ret.kind = "none"
        /\ calls' = calls + 1
        /\ ret'.op = "get_valid_token"
        /\ ret'.arg = ret.arg)
          => ret'.kind # "token"]_vars

(* C25: the listener accepts the redirect on the configured port and path: *)
(* it binds the port that redirect_uri names, and a GET to the path of     *)
(* redirect_uri that carries code=X is answered with 200 and recorded as   *)
(* the authorization code X.                                               *)
C25_ConfiguredPortAndPath ==
    /\ (server.bound /\ auth.redirect_uri.port # NonePort)
          => server.port = auth.redirect_uri.port
    /\ (/\ server.bound
        /\ other.pc = "idle"
        /\ handler.request.path = auth.redirect_uri.path
        /\ InParams(handler.request.code))
          => (handler.status = 200
              /\ handler.authorization_code = handler.request.code)

(* C26: a request that the listener of the attempt handles on a path other *)
(* than the callback path (the path of redirect_uri) is answered with 404  *)
(* and leaves authorization_code and error as they were.                   *)
C26_OtherPathIs404 ==
    [][(/\ thread.state \in {"select", "reading"}
        /\ thread'.state = "loop"
        /\ handler' # handler
        /\ handler'.request.path # auth.redirect_uri.path)
          => (/\ handler'.status = 404
              /\ handler'.authorization_code = handler.authorization_code
              /\ handler'.error = handler.error)]_vars

(* C27: the token file this program writes stays loadable: every key of    *)
(* the document is the decimal string of an integer, and load_tokens does  *)
(* not raise.                                                              *)
C27_StoreStaysLoadable ==
    /\ load_tokens(token_file).exc = ""
    /\ token_file.kind = "doc" => \A k \in DOMAIN token_file.doc : IsIntLiteral(k)

(* C28: whatever get_valid_token(P) returns is None or a token of P that   *)
(* is not expired at the time of the return, also when it is the outcome   *)
(* of a refresh.                                                           *)
C28_ReturnedTokenIsValid ==
    (ret.op = "get_valid_token" /\ ret.kind = "token")
        => /\ ret.val[1].athlete_id = ret.arg
           /\ ~is_expired(ret.val[1], ret.at)

(* C29: save_token(c), delete_token(P) and a refresh of P leave the stored *)
(* token of every other athlete as it was, whatever the token file held,   *)
(* and delete_token of an id that is not stored does not write the file.   *)
C29_OthersUntouched ==
    /\ ret.op \in {"save_token", "remove_athlete", "refresh_token"}
          => \A q \in AthleteIds \ {ret.arg} :
                get_token(token_file, q) = get_token(ret.pre, q)
    /\ (ret.op = "remove_athlete" /\ ~HadToken)
          => (ret.saves = 0 /\ token_file = ret.pre)

(* C30: the browser is opened and the authorization URL printed only once *)
(* the listening socket is bound and the listener thread started, and a    *)
(* call whose bind fails leaves with neither done and the token file as it *)
(* was.                                                                    *)
C30_BoundBeforeBrowser ==
    /\ (auth.browser # "no" \/ auth.url_printed)
          => (server.bound /\ thread.state # "none")
    /\ (ret.op = "authorize_athlete" /\ ret.exc = "OSError")
          => /\ auth.browser = "no"
             /\ ~auth.url_printed
             /\ ~server.bound
             /\ thread.state = "none"
             /\ ret.saves = 0
             /\ token_file = ret.pre

C30_Witness ==
    /\ pc = "join"
    /\ auth.browser = "opened"
    /\ auth.url_printed
    /\ server.bound
    /\ thread.state = "starting"

====
